---- MODULE Spec2Model ----
(***************************************************************************)
(* Model of specutils/spectrum1d.py: the Spectrum1D container, merge_meta  *)
(* and the spec_operation operand-coercion decorator.                      *)
(*                                                                         *)
(* Conventions.  A numpy array is a sequence of integers.  Python's None   *)
(* for an optional value is the empty sequence <<>> and a present value v  *)
(* is <<v>> (so a present but empty array is << <<>> >>).  None for the    *)
(* units tag is the string "None".  A metadata mapping is a function whose *)
(* DOMAIN is its key set.  A call ends in a record whose field status is   *)
(* "ok" or names the exception class raised, and whose field raised_in     *)
(* names the function body the exception left from.                        *)
(***************************************************************************)
EXTENDS Integers, Sequences, FiniteSets, TLC

VARIABLES scipy_available, a, b, r, last

vars == <<scipy_available, a, b, r, last>>

(* ------------------------------ bounds -------------------------------- *)
MaxLen == 3
MaxDisp == 3
MaxFlux == 3
MaxMetaVal == 3

Keys == {"k1", "k2"}

None == <<>>
Some(v) == <<v>>
IsNone(o) == o = <<>>

Min(x, y) == IF x < y THEN x ELSE y

(* ---------------------------- merge_meta ------------------------------ *)
\* dict.update: keys of d2 override those of d1
dict_update(d1, d2) ==
  [k \in (DOMAIN d1) \cup (DOMAIN d2) |-> IF k \in DOMAIN d2 THEN d2[k] ELSE d1[k]]

\* for key in ks: del d[key]
dict_del(d, ks) == [k \in (DOMAIN d) \ ks |-> d[k]]

merge_meta_keeps_duplicates(meta1, meta2) ==
  LET duplicates == (DOMAIN meta1) \cap (DOMAIN meta2)
  IN  [new_meta  |-> dict_update(meta1, meta2),
       warned    |-> duplicates # {},
       warn_keys |-> duplicates,
       meta1     |-> meta1,
       meta2     |-> meta2]

\* new_meta: the returned mapping; warned/warn_keys: the logger.warn call and
\* the keys its message joins; meta1/meta2: the arguments after the call
\* (the function works on deep copies, so they are what they were).
merge_meta(meta1, meta2) ==
  LET duplicates == (DOMAIN meta1) \cap (DOMAIN meta2)
      updated    == dict_update(meta1, meta2)
  IN  [new_meta  |-> dict_del(updated, duplicates),
       warned    |-> Cardinality(duplicates) > 0,
       warn_keys |-> duplicates,
       meta1     |-> meta1,
       meta2     |-> meta2]

(* ------------------------- numpy array helpers ------------------------ *)
\* numpy broadcasting of two 1-d shapes: the common length, or -1
broadcast_len(n, m) ==
  IF n = m THEN n
  ELSE IF n = 1 THEN m
  ELSE IF m = 1 THEN n
  ELSE -1

bcast(x, k) == IF Len(x) = 1 THEN x[1] ELSE x[k]

\* ndarray.__eq__: element-wise over the broadcast shape; for shapes that do
\* not broadcast the comparison gives up and returns the scalar False
ndarray_eq(x, y) ==
  LET n == broadcast_len(Len(x), Len(y))
  IN  IF n < 0
      THEN [scalar |-> TRUE, elems |-> <<>>]
      ELSE [scalar |-> FALSE, elems |-> [k \in 1..n |-> bcast(x, k) = bcast(y, k)]]

\* ndarray.__add__ with an array or a number; shapes that do not broadcast raise
ndarray_add(x, y) ==
  LET n == broadcast_len(Len(x), Len(y))
  IN  IF n < 0
      THEN [status |-> "ValueError", value |-> <<>>]
      ELSE [status |-> "ok", value |-> [k \in 1..n |-> bcast(x, k) + bcast(y, k)]]

ndarray_add_scalar(x, s) == [k \in 1..Len(x) |-> x[k] + s]

\* ndarray.searchsorted(v), side='left': binary search for the insertion point
\* (0-based) over x[lo+1..hi]
RECURSIVE bisect_left(_, _, _, _)
bisect_left(x, v, lo, hi) ==
  IF lo < hi
  THEN LET mid == (lo + hi) \div 2
       IN  IF x[mid + 1] < v
           THEN bisect_left(x, v, mid + 1, hi)
           ELSE bisect_left(x, v, lo, mid)
  ELSE lo

bisect_right_point(x, v) == Cardinality({k \in 1..Len(x) : x[k] <= v})

searchsorted(x, v) == bisect_left(x, v, 0, Len(x))

\* slice.indices(n): start/stop/step are None or Some(integer), step not 0
slice_adjust(i, n, step) ==
  LET j == IF i < 0 THEN i + n ELSE i
  IN  IF j < 0 THEN (IF step < 0 THEN -1 ELSE 0)
      ELSE IF j >= n THEN (IF step < 0 THEN n - 1 ELSE n)
      ELSE j

slice_positions_stop_inclusive(start, stop, step, n) ==
  LET st == IF IsNone(step) THEN 1 ELSE step[1]
      s  == IF IsNone(start)
            THEN (IF st < 0 THEN n - 1 ELSE 0)
            ELSE slice_adjust(start[1], n, st)
      e  == IF IsNone(stop)
            THEN (IF st < 0 THEN -1 ELSE n)
            ELSE IF st > 0 THEN Min(n, slice_adjust(stop[1], n, st) + 1)
            ELSE slice_adjust(stop[1], n, st)
      len == IF st > 0
             THEN (IF s < e THEN (e - s - 1) \div st + 1 ELSE 0)
             ELSE (IF e < s THEN (s - e - 1) \div (-st) + 1 ELSE 0)
  IN  [k \in 1..len |-> s + (k - 1) * st + 1]

\* the 1-based positions a[start:stop:step] selects from an array of length n
slice_positions(start, stop, step, n) ==
  LET st == IF IsNone(step) THEN 1 ELSE step[1]
      s  == IF IsNone(start)
            THEN (IF st < 0 THEN n - 1 ELSE 0)
            ELSE slice_adjust(start[1], n, st)
      e  == IF IsNone(stop)
            THEN (IF st < 0 THEN -1 ELSE n)
            ELSE slice_adjust(stop[1], n, st)
      len == IF st > 0
             THEN (IF s < e THEN (e - s - 1) \div st + 1 ELSE 0)
             ELSE (IF e < s THEN (s - e - 1) \div (-st) + 1 ELSE 0)
  IN  [k \in 1..len |-> s + (k - 1) * st + 1]

\* ndarray.__getitem__(slice(start, stop, step))
ndarray_getitem(x, start, stop, step) ==
  LET pos == slice_positions(start, stop, step, Len(x))
  IN  [k \in 1..Len(pos) |-> x[pos[k]]]

(* ----------------------------- Spectrum1D ----------------------------- *)
\* Spectrum1D.__init__ without a wcs: flux/error/mask/meta/units go to NDData
\* (meta=None becomes an empty mapping there), dispersion is stored as given
Spectrum1D(flux, dispersion, error, mask, meta, units) ==
  [flux       |-> flux,
   dispersion |-> dispersion,
   error      |-> error,
   mask       |-> mask,
   meta       |-> IF IsNone(meta) THEN << >> ELSE meta[1],
   units      |-> units]

\* no exception: the value returned, and where the storage of its dispersion
\* array comes from ("copy": a fresh array, "view": the receiver's buffer,
\* "arg": the caller's array)
Ok(result, storage, w) ==
  [status |-> "ok", raised_in |-> "", msg |-> "", result |-> Some(result),
   disp_storage |-> storage, warned |-> w.warned, warn_keys |-> w.warn_keys]

NoWarn == [warned |-> FALSE, warn_keys |-> {}]

Raise(exc, where, msg) ==
  [status |-> exc, raised_in |-> where, msg |-> msg, result |-> None,
   disp_storage |-> "", warned |-> FALSE, warn_keys |-> {}]

\* an exception after a logger.warn call that joins no keys
RaiseWarned(exc, where, msg) ==
  [status |-> exc, raised_in |-> where, msg |-> msg, result |-> None,
   disp_storage |-> "", warned |-> TRUE, warn_keys |-> {}]

\* the name `copy` inside Spectrum1D.slice is the module imported at the top
\* of the file (slice has no parameter of that name); a module object is true
copy_module_truth == TRUE

\* the body of slice after the units dispatch: `if copy:` and the construction.
\* Each array is indexed with the same slice object; a zero step makes the
\* first indexing raise.  units and dispersion_unit are not handed on.
slice_construct(self, start, stop, step) ==
  IF copy_module_truth
  THEN IF step = Some(0)
       THEN Raise("ValueError", "slice", "slice step cannot be zero")
       ELSE LET new_error == IF ~IsNone(self.error)
                             THEN Some(ndarray_getitem(self.error[1], start, stop, step))
                             ELSE None
                new_mask  == IF ~IsNone(self.mask)
                             THEN Some(ndarray_getitem(self.mask[1], start, stop, step))
                             ELSE None
            IN  Ok(Spectrum1D(ndarray_getitem(self.flux, start, stop, step),
                              ndarray_getitem(self.dispersion, start, stop, step),
                              new_error, new_mask, Some(self.meta), "None"),
                   "view", NoWarn)
  ELSE Raise("NotImplementedError", "slice", "Inplace will be implemented soon")

\* Spectrum1D.slice(start, stop, step, units); copy_kw is None when the caller
\* passes no copy keyword and Some(value) when it passes copy=value, which the
\* signature does not accept
Spectrum1D_slice(self, start, stop, step, units, copy_kw) ==
  IF ~IsNone(copy_kw)
  THEN Raise("TypeError", "call", "unexpected keyword argument 'copy'")
  ELSE IF units = "dispersion"
  THEN IF ~IsNone(step)
       THEN Raise("ValueError", "slice", "step can only be specified for units=pixel")
       ELSE LET start_idx == searchsorted(self.dispersion, start[1])
                stop_idx  == searchsorted(self.dispersion, stop[1])
            IN  slice_construct(self, Some(start_idx), Some(stop_idx), None)
  ELSE IF units = "index"
  THEN slice_construct(self, start, stop, step)
  ELSE Raise("ValueError", "slice", "units keyword can only have the values")

\* scipy.interpolate.interp1d(x, y, ...)(grid): "ok" or the exception of the
\* library.  short is what the library makes of fewer than two samples.
interp1d(x, y, bounds_error, grid, short) ==
  IF Len(x) # Len(y) THEN "ValueError"
  ELSE IF Len(x) < 2 /\ short # "ok" THEN short
  ELSE IF bounds_error /\ \E k \in 1..Len(grid) :
                             Len(x) = 0 \/ grid[k] < x[1] \/ grid[k] > x[Len(x)]
  THEN "ValueError"
  ELSE "ok"

\* Spectrum1D.interpolate(dispersion, kind, bounds_error, fill_value, copy).
\* Without scipy the call ends at np.interp(new_), an undefined name; with
\* scipy the copy branch ends at error=new_error, an undefined name, before
\* the constructor is entered.
Spectrum1D_interpolate(self, dispersion, kind, bounds_error, copy, scipy, short) ==
  IF ~scipy
  THEN IF kind # "linear"
       THEN Raise("ValueError", "interpolate", "Only linear interpolation is available")
       ELSE RaiseWarned("NameError", "interpolate", "name 'new_' is not defined")
  ELSE LET lib == interp1d(self.dispersion, self.flux, bounds_error, dispersion, short)
       IN  IF lib # "ok"
           THEN Raise(lib, "interp1d", "")
           ELSE IF copy
           THEN Raise("NameError", "interpolate", "name 'new_error' is not defined")
           ELSE Raise("NotImplementedError", "interpolate", "Inplace will be implemented soon")

(* --------------------------- arithmetic ------------------------------- *)
\* operands of a binary operator: a spectrum, a number, or a value of
\* another Python type
OperandSpectrum(s) == [kind |-> "Spectrum1D", spec |-> Some(s), num |-> 0]
OperandNumber(n) == [kind |-> "number", spec |-> None, num |-> n]
OperandOther(t) == [kind |-> t, spec |-> None, num |-> 0]

\* np.isscalar: true of Python numbers and also of str, false of list and None
np_isscalar(operand) == operand.kind \in {"number", "str"}

\* the decorated __add__(self, operand_flux, operand_meta); operand_flux is
\* the record convert_operands resolved: an array (arr), a number (num) or str
Spectrum1D_add(self, operand_flux, operand_meta) ==
  IF operand_flux.kind = "str"
  THEN Raise("TypeError", "__add__", "unsupported operand type(s) for +: ndarray and str")
  ELSE LET sum == IF operand_flux.kind = "number"
                  THEN [status |-> "ok", value |-> ndarray_add_scalar(self.flux, operand_flux.num)]
                  ELSE ndarray_add(self.flux, operand_flux.arr)
       IN  IF sum.status # "ok"
           THEN Raise(sum.status, "__add__", "operands could not be broadcast together")
           ELSE LET new_meta == merge_meta(self.meta, operand_meta)
                IN  Ok(Spectrum1D(sum.value, self.dispersion, None, None,
                                  Some(new_meta.new_meta), "None"),
                       "copy", new_meta)

\* spec_operation.convert_operands(self, operand).  The builtin all() over the
\* scalar False that a failed array comparison returns is a TypeError.
convert_operands(self, operand) ==
  IF operand.kind = "Spectrum1D"
  THEN LET o  == operand.spec[1]
           eq == ndarray_eq(self.dispersion, o.dispersion)
       IN  IF eq.scalar
           THEN Raise("TypeError", "convert_operands", "'bool' object is not iterable")
           ELSE IF ~((\A k \in 1..Len(eq.elems) : eq.elems[k]) /\ self.units = o.units)
           THEN Raise("ValueError", "convert_operands",
                      "Dispersion and units need to match for both Spectrum1D objects")
           ELSE Spectrum1D_add(self, [kind |-> "array", arr |-> o.flux, num |-> 0], o.meta)
  ELSE IF np_isscalar(operand)
  THEN Spectrum1D_add(self, [kind |-> operand.kind, arr |-> <<>>, num |-> operand.num], << >>)
  ELSE Raise("ValueError", "convert_operands", "unsupported operand type(s) for operation")

(* ------------------------- inputs of the model ------------------------ *)
OptInts(S) == {None} \cup {Some(i) : i \in S}

\* strictly ascending sequences over 1..top, at most n long
RECURSIVE Ascending(_, _)
Ascending(top, n) ==
  IF top = 0 \/ n = 0 THEN {<<>>}
  ELSE Ascending(top - 1, n)
       \cup {Append(d, top) : d \in Ascending(top - 1, n - 1)}

\* sorted (non-decreasing) sequences over 1..top, at most n long
RECURSIVE Sorted(_, _)
Sorted(top, n) ==
  IF top = 0 \/ n = 0 THEN {<<>>}
  ELSE Sorted(top - 1, n)
       \cup {Append(d, top) : d \in Sorted(top, n - 1)}

\* grids may start below and end above every dispersion value (0..top+1)
Shift(d) == [k \in 1..Len(d) |-> d[k] - 1]
Grids == {Shift(g) : g \in Ascending(MaxDisp + 2, 2)}

Metas == UNION {[D -> 1..MaxMetaVal] : D \in SUBSET Keys}

SpectrumMetas == {m \in Metas : \A k \in DOMAIN m : m[k] = 1}

\* a constructed spectrum: one flux value per dispersion sample, error and
\* mask (when given) of that length, dispersion sorted ascending
Constructed(disp, base, ramp, witherr, withmask, units, meta) ==
  Spectrum1D([k \in 1..Len(disp) |-> base + ramp * (k - 1)],
             disp,
             IF witherr THEN Some([k \in 1..Len(disp) |-> 10 * k + disp[k]]) ELSE None,
             IF withmask THEN Some([k \in 1..Len(disp) |-> k % 2]) ELSE None,
             Some(meta), units)

SliceFamily ==
  {Constructed(d, 1, 1, e, m, u, mt) :
     d \in Sorted(MaxDisp, MaxLen), e \in BOOLEAN,
     m \in BOOLEAN, u \in {"None", "Jy"},
     mt \in {x \in SpectrumMetas : DOMAIN x \subseteq {"k1"}}}

AddFamily ==
  {Constructed(d, 1, 0, TRUE, TRUE, u, mt) :
     d \in Ascending(MaxDisp - 1, MaxLen - 1),
     u \in {"None", "Jy"}, mt \in {x \in SpectrumMetas : Cardinality(DOMAIN x) = 1}}

Empty == Constructed(<<>>, 1, 0, FALSE, FALSE, "None", << >>)

(* ------------------------------ actions ------------------------------- *)
\* the spectra a caller holds: a and the last result are receivers, and b as
\* well is an operand
Receivers == {a} \cup {r[k] : k \in 1..Len(r)}

Operands == Receivers \cup {b}

\* the outcome field of a call that has not run yet
Pending == [status |-> "pending", raised_in |-> "", msg |-> "", result |-> None,
            disp_storage |-> "", warned |-> FALSE, warn_keys |-> {}]

\* the calls of slice a caller makes on self, not yet run: index and
\* dispersion mode over the full argument ranges, and the calls the units
\* dispatch or the signature turns down
SliceCalls(self) ==
  {[op |-> "slice", self |-> self, start |-> start, stop |-> stop, step |-> step,
    units |-> "index", copy_kw |-> None, out |-> Pending] :
     start \in OptInts((0 - MaxLen)..MaxLen), stop \in OptInts((0 - MaxLen)..MaxLen),
     step \in OptInts({-1, 0, 2})}
  \cup
  {[op |-> "slice", self |-> self, start |-> Some(start), stop |-> Some(stop),
    step |-> step, units |-> "dispersion", copy_kw |-> None, out |-> Pending] :
     start \in 0..(MaxDisp + 1), stop \in 0..(MaxDisp + 1), step \in OptInts({2})}
  \cup
  {[op |-> "slice", self |-> self, start |-> Some(0), stop |-> Some(1), step |-> None,
    units |-> units, copy_kw |-> copy_kw, out |-> Pending] :
     units \in {"dispersion", "index", "pixel"},
     copy_kw \in {None, Some(TRUE), Some(FALSE)}}

InterpolateCalls(self) ==
  {[op |-> "interpolate", self |-> self, dispersion |-> dispersion, kind |-> kind,
    bounds_error |-> bounds_error, copy |-> copy, out |-> Pending] :
     dispersion \in Grids, kind \in {"linear", "cubic"}, bounds_error \in BOOLEAN,
     copy \in BOOLEAN}

\* the pending call of slice runs
SliceCall ==
  /\ last.op = "slice"
  /\ last.out = Pending
  /\ LET out == Spectrum1D_slice(last.self, last.start, last.stop, last.step,
                                 last.units, last.copy_kw)
     IN  /\ last' = [last EXCEPT !.out = out]
         /\ r' = IF out.status = "ok" THEN out.result ELSE r
  /\ UNCHANGED <<scipy_available, a, b>>

\* the pending call of interpolate runs
InterpolateCall ==
  /\ last.op = "interpolate"
  /\ last.out = Pending
  /\ \E short \in (IF Len(last.self.dispersion) = 0 THEN {"ValueError"}
                   ELSE IF Len(last.self.dispersion) = 1 THEN {"ValueError", "ok"}
                   ELSE {"ok"}) :
       last' = [last EXCEPT !.out =
                  Spectrum1D_interpolate(last.self, last.dispersion, last.kind,
                                         last.bounds_error, last.copy,
                                         scipy_available, short)]
  /\ UNCHANGED <<scipy_available, a, b, r>>

\* a caller slices one of its spectra, by index or by coordinate
SliceStep ==
  \E self \in Receivers, units \in {"dispersion", "index"} :
    \E start \in (IF units = "dispersion" THEN {Some(1), Some(2)} ELSE OptInts({1})),
       stop \in (IF units = "dispersion" THEN {Some(1), Some(2)} ELSE OptInts({1})) :
      LET out == Spectrum1D_slice(self, start, stop, None, units, None)
      IN  /\ last' = [op |-> "slice", self |-> self, start |-> start, stop |-> stop,
                      step |-> None, units |-> units, copy_kw |-> None, out |-> out]
          /\ r' = IF out.status = "ok" THEN out.result ELSE r
          /\ UNCHANGED <<scipy_available, a, b>>

\* self + operand; the sums are kept within MaxFlux
Add(self, operand) ==
  LET out == convert_operands(self, operand)
  IN  /\ out.status = "ok" =>
           \A k \in 1..Len(out.result[1].flux) : out.result[1].flux[k] <= MaxFlux
      /\ last' = [op |-> "add", self |-> self, operand |-> operand, out |-> out]
      /\ r' = IF out.status = "ok" THEN out.result ELSE r
      /\ UNCHANGED <<scipy_available, a, b>>

AddSpectrum == \E self \in Receivers, o \in Operands : Add(self, OperandSpectrum(o))

AddScalar == \E self \in Receivers : Add(self, OperandNumber(1))

AddOther == \E self \in {a}, t \in {"str", "list", "NoneType"} : Add(self, OperandOther(t))

MergeMetaCall ==
  \E meta1 \in Metas, meta2 \in Metas :
    /\ last' = [op |-> "merge_meta", arg1 |-> meta1, arg2 |-> meta2,
                out |-> merge_meta(meta1, meta2)]
    /\ UNCHANGED <<scipy_available, a, b, r>>

(* --------------------------- specifications --------------------------- *)
Init ==
  /\ scipy_available = TRUE
  /\ a \in AddFamily
  /\ b \in AddFamily
  /\ r = None
  /\ last = [op |-> "init"]

Next == AddSpectrum \/ AddScalar \/ AddOther \/ SliceStep

Spec == Init /\ [][Next]_vars

InitSlice ==
  /\ a \in SliceFamily
  /\ b = Empty
  /\ r = None
  /\ last \in SliceCalls(a) \cup InterpolateCalls(a)
  /\ scipy_available \in (IF last.op = "interpolate" THEN BOOLEAN ELSE {TRUE})

NextSlice == SliceCall \/ InterpolateCall

SpecSlice == InitSlice /\ [][NextSlice]_vars

InitMeta ==
  /\ scipy_available = TRUE
  /\ a = Empty
  /\ b = Empty
  /\ r = None
  /\ last = [op |-> "init"]

NextMeta == MergeMetaCall

SpecMeta == InitMeta /\ [][NextMeta]_vars

(* ---------------------------- properties ------------------------------ *)
Done(op) == last.op = op /\ last.out.status # "pending"

\* C4: merge_meta(m1, m2) has exactly the keys of m1 and m2 that are not in
\* both, each with the value of the one input that has it; a warning naming
\* exactly the shared keys is emitted when there are shared keys, and none
\* when there are none.
C4_MergeMetaDropsShared ==
  last.op = "merge_meta" =>
    LET m1 == last.arg1
        m2 == last.arg2
        K  == (DOMAIN m1) \cap (DOMAIN m2)
        res == last.out.new_meta
    IN  /\ DOMAIN res = ((DOMAIN m1) \cup (DOMAIN m2)) \ K
        /\ \A k \in DOMAIN res : res[k] = IF k \in DOMAIN m1 THEN m1[k] ELSE m2[k]
        /\ (K # {}) => (last.out.warned /\ last.out.warn_keys = K)
        /\ (K = {}) => ~last.out.warned

C4_Witness ==
  /\ last.op = "merge_meta"
  /\ DOMAIN last.arg1 = {"k1", "k2"}
  /\ DOMAIN last.arg2 = {"k1"}
  /\ last.arg1["k1"] # last.arg2["k1"]
  /\ DOMAIN last.out.new_meta = {"k2"}
  /\ last.out.warn_keys = {"k1"}

IndexSliceCase ==
  /\ Done("slice")
  /\ last.units = "index"
  /\ IsNone(last.copy_kw)
  /\ IsNone(last.step)
  /\ ~IsNone(last.start)
  /\ ~IsNone(last.stop)
  /\ 0 <= last.start[1]
  /\ last.start[1] < last.stop[1]
  /\ last.stop[1] <= Len(last.self.flux)

\* x holds the elements of y at the 0-based positions i..j-1, in order
IsRange(x, y, i, j) ==
  /\ Len(x) = j - i
  /\ j <= Len(y)
  /\ \A k \in 1..(j - i) : x[k] = y[i + k]

OptIsRange(x, y, i, j) ==
  IF IsNone(y) THEN IsNone(x) ELSE ~IsNone(x) /\ IsRange(x[1], y[1], i, j)

\* C5: slice(i, j, units='index') with 0 <= i < j <= n returns a spectrum of
\* length j - i whose flux, dispersion, error and mask (when present) are the
\* original's elements i..j-1 in order, and whose meta is the original meta.
C5_IndexSlice ==
  IndexSliceCase =>
    /\ last.out.status = "ok"
    /\ LET res == last.out.result[1]
           i   == last.start[1]
           j   == last.stop[1]
       IN  /\ IsRange(res.flux, last.self.flux, i, j)
           /\ IsRange(res.dispersion, last.self.dispersion, i, j)
           /\ OptIsRange(res.error, last.self.error, i, j)
           /\ OptIsRange(res.mask, last.self.mask, i, j)
           /\ res.meta = last.self.meta

C5_Witness ==
  /\ IndexSliceCase
  /\ last.start[1] = 1
  /\ last.stop[1] = 2
  /\ Len(last.self.flux) = 3
  /\ ~IsNone(last.self.error)
  /\ ~IsNone(last.self.mask)
  /\ DOMAIN last.self.meta = {"k1"}
  /\ last.out.status = "ok"
  /\ last.out.result[1].flux = <<last.self.flux[2]>>

IsSample(self, v) == \E k \in 1..Len(self.dispersion) : self.dispersion[k] = v

DispersionSliceCase ==
  /\ Done("slice")
  /\ last.units = "dispersion"
  /\ IsNone(last.copy_kw)
  /\ IsNone(last.step)
  /\ last.start[1] <= last.stop[1]
  /\ IsSample(last.self, last.start[1])
  /\ IsSample(last.self, last.stop[1])

\* the positions of self.dispersion whose value v has d0 <= v < d1
InWindow(self, d0, d1) ==
  {k \in 1..Len(self.dispersion) : d0 <= self.dispersion[k] /\ self.dispersion[k] < d1}

\* x holds, in order, the elements of y at the positions P (an interval)
IsSelection(x, y, P) ==
  /\ Len(x) = Cardinality(P)
  /\ \A k \in P : k <= Len(y) /\ x[k - Cardinality({p \in 1..Len(y) : p < k /\ p \notin P})] = y[k]

OptIsSelection(x, y, P) ==
  IF IsNone(y) THEN IsNone(x) ELSE ~IsNone(x) /\ IsSelection(x[1], y[1], P)

\* C6: on a sorted dispersion, slice(d0, d1, units='dispersion') with sample
\* values d0 <= d1 returns exactly the samples with d0 <= v < d1: the first
\* retained value is d0, every retained value is below d1, and flux, error
\* and mask come from the same positions.
C6_DispersionSlice ==
  DispersionSliceCase =>
    /\ last.out.status = "ok"
    /\ LET res == last.out.result[1]
           P   == InWindow(last.self, last.start[1], last.stop[1])
       IN  /\ IsSelection(res.dispersion, last.self.dispersion, P)
           /\ IsSelection(res.flux, last.self.flux, P)
           /\ OptIsSelection(res.error, last.self.error, P)
           /\ OptIsSelection(res.mask, last.self.mask, P)
           /\ Len(res.dispersion) > 0 => res.dispersion[1] = last.start[1]
           /\ \A k \in 1..Len(res.dispersion) : res.dispersion[k] < last.stop[1]

C6_Witness ==
  /\ DispersionSliceCase
  /\ last.self.dispersion = <<1, 2, 3>>
  /\ ~IsNone(last.self.error)
  /\ last.start[1] = 1
  /\ last.stop[1] = 3
  /\ last.out.status = "ok"
  /\ last.out.result[1].dispersion = <<1, 2>>
  /\ last.out.result[1].flux = <<last.self.flux[1], last.self.flux[2]>>

SameDispersion(x, y) == Len(x) = Len(y) /\ \A k \in 1..Len(x) : x[k] = y[k]

AddSpectrumCase == Done("add") /\ last.operand.kind = "Spectrum1D"

\* C1: for spectra a and b with element-wise equal dispersion and equal
\* units, a + b succeeds and returns a spectrum whose flux is the
\* element-wise sum, whose dispersion is value-equal to a's in storage of its
\* own, and whose meta is merge_meta(a.meta, b.meta).
C1_AddSpectra ==
  (AddSpectrumCase
     /\ SameDispersion(last.self.dispersion, last.operand.spec[1].dispersion)
     /\ last.self.units = last.operand.spec[1].units) =>
    /\ last.out.status = "ok"
    /\ LET res == last.out.result[1]
           x   == last.self
           y   == last.operand.spec[1]
       IN  /\ Len(res.flux) = Len(x.flux)
           /\ Len(y.flux) = Len(x.flux)
           /\ \A k \in 1..Len(res.flux) : res.flux[k] = x.flux[k] + y.flux[k]
           /\ res.dispersion = x.dispersion
           /\ last.out.disp_storage = "copy"
           /\ res.meta = dict_del(dict_update(x.meta, y.meta),
                                  (DOMAIN x.meta) \cap (DOMAIN y.meta))

\* C2: if the dispersion arrays of a and b are not element-wise equal (they
\* differ at an index that one or both of them have), or their units differ,
\* a + b fails with a value error raised by the operand check, and no
\* result is constructed.
C2_AddMismatchFails ==
  (AddSpectrumCase
     /\ \/ ~SameDispersion(last.self.dispersion, last.operand.spec[1].dispersion)
        \/ last.self.units # last.operand.spec[1].units) =>
    /\ last.out.status = "ValueError"
    /\ last.out.raised_in = "convert_operands"
    /\ IsNone(last.out.result)

\* C3: for a (non-empty) spectrum a and an operand x that is neither a
\* Spectrum1D nor a number (a text string, a list, None), a + x fails
\* inside the operand-coercion wrapper with an error naming both operand
\* types; the addition body is not reached.
C3_AddUnsupportedFails ==
  (Done("add") /\ last.operand.kind \notin {"Spectrum1D", "number"}
     /\ Len(last.self.flux) > 0) =>
    /\ last.out.status # "ok"
    /\ last.out.raised_in = "convert_operands"
    /\ last.out.msg = "unsupported operand type(s) for operation"

\* the grid lies inside the dispersion range of self
GridInside(self, grid) ==
  /\ Len(self.dispersion) > 0
  /\ \A k \in 1..Len(grid) :
       self.dispersion[1] <= grid[k] /\ grid[k] <= self.dispersion[Len(self.dispersion)]

\* C7: with scipy available, a spectrum of two or more samples on a strictly
\* ascending dispersion and a non-empty grid inside the dispersion range,
\* interpolate(grid) with copy=True completes and returns a spectrum whose
\* dispersion is the grid, with one flux value per grid coordinate.
C7_InterpolateCopies ==
  (Done("interpolate") /\ scipy_available /\ last.copy
     /\ last.self.dispersion \in Ascending(MaxDisp, MaxLen)
     /\ Len(last.self.dispersion) >= 2
     /\ Len(last.dispersion) >= 1
     /\ GridInside(last.self, last.dispersion)) =>
    /\ last.out.status = "ok"
    /\ last.out.result[1].dispersion = last.dispersion
    /\ Len(last.out.result[1].flux) = Len(last.dispersion)

\* C8: a non-copy request always ends in a not-implemented error:
\* interpolate(grid, copy=False) (stated here for the calls the interpolation
\* library accepts: scipy present, two or more samples, grid in range), and
\* slice called with copy=False.
C8_InplaceNotImplemented ==
  /\ (Done("interpolate") /\ ~last.copy /\ scipy_available
        /\ Len(last.self.dispersion) >= 2 /\ GridInside(last.self, last.dispersion)) =>
       last.out.status = "NotImplementedError"
  /\ (Done("slice") /\ last.copy_kw = Some(FALSE)) => last.out.status = "NotImplementedError"

Aligned(s) ==
  /\ Len(s.flux) = Len(s.dispersion)
  /\ ~IsNone(s.error) => Len(s.error[1]) = Len(s.flux)
  /\ ~IsNone(s.mask) => Len(s.mask[1]) = Len(s.flux)

\* C9: every spectrum returned by a sequence of successful slice and __add__
\* calls on length-aligned spectra has len(flux) = len(dispersion), with error
\* and mask, when present, of that length.
C9_LengthsAligned ==
  /\ Aligned(a)
  /\ Aligned(b)
  /\ \A k \in 1..Len(r) : Aligned(r[k])

\* C10: the result of slice and of __add__ on a (non-empty) receiver has the
\* units of the receiver, so
\* a sum of spectra that carry a unit tag can be added to a third one.
C10_UnitsKept ==
  ((Done("slice") \/ Done("add")) /\ last.out.status = "ok"
     /\ Len(last.self.flux) > 0) =>
    last.out.result[1].units = last.self.units

====
